---- MODULE Spec2Model ----
(***************************************************************************)
(* Davincible/tgbot: the login bot's conversation table                    *)
(* (bots/loginbot/loginbot.go).  Goroutines are the ask callers, the       *)
(* update handlers (deliver), the stale-request sweeper and Shutdown.      *)
(* Every section the code runs under b.mutex is one atomic action; the     *)
(* steps a goroutine takes between two such sections are separate actions, *)
(* so other goroutines interleave exactly where the lock is free.          *)
(*                                                                         *)
(* Channels and contexts follow the Go semantics: a select whose cases are *)
(* ready when it is evaluated takes any one of them; a goroutine parked in *)
(* a select is woken by the first event that makes one of its cases ready; *)
(* ctx.Done() is closed by the timer and by cancel() alike; a send on a    *)
(* closed channel panics, also inside a select with a default case.        *)
(*                                                                         *)
(* Time is a discrete clock in units of cleanupInterval.                   *)
(***************************************************************************)
EXTENDS Integers, Sequences, FiniteSets, TLC

\* ---------------------------------------------------------------- bounds
MaxReqs == 2        \* createRequest calls in one run
MaxTime == 2        \* the clock stops here
Timeout == 1        \* Config.Timeout, in clock ticks
cleanupInterval == 1

Chats == {42, 43}
Callers == {"a1", "a2"}
Delivs == {"d1", "d2"}

reqType2Fa == "2fa"
reqTypeCode == "code"
reqTypePhone == "phone"
Kinds == {reqType2Fa, reqTypeCode, reqTypePhone}

ErrTimeout == "request timed out"
ErrCanceled == "request canceled"
ErrSend == "send failed"
NoErr == "nil"

\* ----------------------------------------------------------------- texts
Digits == {"0", "1", "2", "3", "4", "5", "6", "7", "8", "9"}
Letters == {"a", "i", "n", "o", "s"}
Spaces == {" "}

IsDigit(ch) == ch \in Digits
\* \w of the regexp: [0-9A-Za-z_]
IsWord(ch) == ch \in Digits \cup Letters \cup {"_"}
IsSpace(ch) == ch \in Spaces

CodeLen == 5

\* reCode = \b\d{5}\b matches at position i
reCodeAt(t, i) ==
    /\ i + CodeLen - 1 <= Len(t)
    /\ \A j \in i..(i + CodeLen - 1) : IsDigit(t[j])
    /\ (i = 1 \/ ~IsWord(t[i - 1]))
    /\ (i + CodeLen - 1 = Len(t) \/ ~IsWord(t[i + CodeLen]))

hasCode(t) == \E i \in 1..Len(t) : reCodeAt(t, i)

extractCode(t) ==
    IF hasCode(t)
    THEN LET i == CHOOSE k \in 1..Len(t) :
                     reCodeAt(t, k) /\ \A m \in 1..(k - 1) : ~reCodeAt(t, m)
         IN SubSeq(t, i, i + CodeLen - 1)
    ELSE <<>>

TrimSpace(t) ==
    LET keep == {i \in 1..Len(t) : ~IsSpace(t[i])}
    IN IF keep = {} THEN <<>>
       ELSE LET lo == CHOOSE i \in keep : \A j \in keep : i <= j
                hi == CHOOSE i \in keep : \A j \in keep : j <= i
            IN SubSeq(t, lo, hi)

\* phonenumber.Parse (github.com/dongri/phonenumber): drops every non-digit and
\* returns the digits of a number it recognises, "" otherwise.
KnownPhones == {<<"3", "1", "4", "8", "2", "1", "3">>}
phoneParse(t) ==
    LET d == SelectSeq(t, IsDigit)
    IN IF d \in KnownPhones THEN d ELSE <<>>

Texts == {
    <<"4", "8", "2", "1", "3">>,
    <<"i", "s", " ", "4", "8", "2", "1", "3", ",">>,
    <<" ", "n", "o">>,
    <<" ">>,
    <<"4", "8", "2", "1", "3", "7">>,
    <<"+", "3", "1", " ", "4", "8", "2", "1", "3">>
}

\* What a handler makes of the text for its kind; <<>> is "validation failed".
validate(kind, t) ==
    CASE kind = reqType2Fa -> TrimSpace(t)
      [] kind = reqTypeCode -> extractCode(t)
      [] kind = reqTypePhone ->
            LET phone == phoneParse(TrimSpace(t))
            IN IF Len(phone) = 0 THEN <<>>
               ELSE IF phone[1] = "+" THEN phone ELSE <<"+">> \o phone

\* ----------------------------------------------------------------- state
VARIABLES
    loginRequests,  \* b.loginRequests: chat -> (kind -> request)
    login2FAIdx,    \* b.login2FAIdx: chat -> int
    reqs,           \* the loginRequest objects, by allocation order
    pc,             \* where each ask caller is
    call,           \* each caller's arguments and its request
    dpc,            \* where each update handler is
    dcall,          \* each handler's arguments, request and value
    now,            \* the clock
    tickerC,        \* ticker.C of cleanupStaleRequests holds a tick
    sweeper,        \* the cleanupStaleRequests goroutine
    done,           \* b.done is closed
    scope,          \* the part of the program this run exercises (constant)
    sent,           \* the sender.Send call of the last step, if any
    ret,            \* the ask calls that returned in the last step
    logged,         \* the b.logger.Error call of the last step, if any
    merger,         \* the BotMerger and the modules merged into it
    mout,           \* what the last call on the merger returned or invoked
    mutex,          \* the goroutine that holds b.mutex between two steps
    reader,         \* the dispatch-path reader of the merger's maps
    panicked        \* the runtime panic that ended the program, if any

vars == <<loginRequests, login2FAIdx, reqs, pc, call, dpc, dcall, now,
          tickerC, sweeper, done, scope, sent, ret, logged, merger, mout, mutex,
          reader, panicked>>

NoReq == 0
NoSend == [chat |-> 0, msg |-> "", ok |-> TRUE]
NoLog == ""
NoCall == [chat |-> 0, kind |-> "", attemptLeft |-> 0, req |-> NoReq]
NoDCall == [chat |-> 0, kind |-> "", req |-> NoReq, val |-> <<>>,
            msg |-> FALSE, text |-> <<>>, seen |-> 0]

\* A request no goroutine and no table entry refers to any more
DeadReq ==
    [chat |-> 0, kind |-> "", created |-> 0, buf |-> <<>>, closed |-> TRUE,
     done |-> TRUE, nsent |-> 0, end |-> "dead", removedFor |-> NoReq]

\* An ask call returning (val, err): q is the request it had created, as it is
\* when the call returns (DeadReq when the call created none)
Return(q, val, err) ==
    [chat |-> q.chat, kind |-> q.kind, created |-> q.created, end |-> q.end,
     nsent |-> q.nsent, val |-> val, err |-> err]

\* Go maps as functions over the keys present
Put(m, k, v) == [x \in (DOMAIN m) \cup {k} |-> IF x = k THEN v ELSE m[x]]
Del(m, k) == [x \in (DOMAIN m) \ {k} |-> m[x]]
EmptyMap == [x \in {} |-> 0]

HasSlot(chat, kind) ==
    chat \in DOMAIN loginRequests /\ kind \in DOMAIN loginRequests[chat]

TableReqs(lr) ==
    {lr[ck[1]][ck[2]] : ck \in
        {x \in (DOMAIN lr) \X Kinds : x[2] \in DOMAIN lr[x[1]]}}

InTable(r) == r \in TableReqs(loginRequests)

Deadline(r) == reqs[r].created + Timeout

\* No BotMerger has been built
NoMerger == [err |-> ""]
NoOut == [call |-> "", err |-> NoErr, invoked |-> <<>>]

\* No goroutine is reading a map of the merger
NoReader == [pc |-> "idle", raced |-> FALSE]

\* b.mutex is held by nobody. Every section of the code between Lock (RLock)
\* and the deferred or explicit Unlock lies inside one step, so a step that
\* takes the lock needs it free and leaves it free.
NoHolder == ""
LockFree == mutex = NoHolder

\* A run exercises one of these parts of the program: the asks the drivers
\* make (chat, kind, attemptLeft), the (chat, kind) the handlers are called for,
\* the goroutines that run (handlers called directly, handlers behind the
\* middleware), whether time passes and whether Shutdown is called. Inside its scope every interleaving is
\* explored.
Scopes == {
    [asks |-> {<<42, reqTypePhone, 0>>, <<43, reqTypePhone, 0>>},
     handles |-> {<<42, reqTypePhone>>, <<43, reqTypePhone>>},
     callers |-> {"a1", "a2"}, delivs |-> {"d1"}, routers |-> {},
     clock |-> FALSE, shutdown |-> FALSE],
    [asks |-> {<<42, reqTypeCode, 0>>},
     handles |-> {<<42, reqTypeCode>>},
     callers |-> {"a1"}, delivs |-> {"d1", "d2"}, routers |-> {},
     clock |-> FALSE, shutdown |-> FALSE],
    [asks |-> {<<42, reqTypePhone, 0>>, <<43, reqTypeCode, 0>>, <<43, reqType2Fa, 1>>},
     handles |-> {},
     callers |-> {"a1", "a2"}, delivs |-> {}, routers |-> {},
     clock |-> FALSE, shutdown |-> TRUE],
    [asks |-> {<<42, reqType2Fa, 0>>},
     handles |-> {<<42, reqType2Fa>>, <<42, reqTypeCode>>},
     callers |-> {"a1"}, delivs |-> {"d1"}, routers |-> {},
     clock |-> TRUE, shutdown |-> FALSE],
    [asks |-> {<<42, reqType2Fa, 0>>, <<42, reqTypeCode, 0>>},
     handles |-> {},
     callers |-> {"a1", "a2"}, delivs |-> {}, routers |-> {"d1"},
     clock |-> FALSE, shutdown |-> FALSE],
    [asks |-> {<<42, reqType2Fa, 0>>, <<42, reqTypeCode, 0>>},
     handles |-> {},
     callers |-> {"a1", "a2"}, delivs |-> {}, routers |-> {},
     clock |-> TRUE, shutdown |-> FALSE],
    [asks |-> {<<43, reqTypePhone, 0>>},
     handles |-> {},
     callers |-> {"a1", "a2"}, delivs |-> {}, routers |-> {},
     clock |-> TRUE, shutdown |-> TRUE],
    [asks |-> {<<42, reqTypePhone, 0>>, <<43, reqTypePhone, 0>>},
     handles |-> {},
     callers |-> {"a1", "a2"}, delivs |-> {}, routers |-> {},
     clock |-> TRUE, shutdown |-> FALSE]
}

\* New of the login bot: empty maps, the sweeper started
InitBot ==
    /\ loginRequests = EmptyMap
    /\ login2FAIdx = EmptyMap
    /\ reqs = <<>>
    /\ pc = [c \in Callers |-> "idle"]
    /\ call = [c \in Callers |-> NoCall]
    /\ dpc = [d \in Delivs |-> "idle"]
    /\ dcall = [d \in Delivs |-> NoDCall]
    /\ now = 0
    /\ tickerC = FALSE
    /\ sweeper = "running"
    /\ done = FALSE
    /\ mutex = NoHolder
    /\ sent = NoSend
    /\ ret = {}
    /\ logged = NoLog
    /\ panicked = "none"

Init ==
    /\ scope \in Scopes
    /\ InitBot
    /\ merger = NoMerger
    /\ mout = NoOut
    /\ reader = NoReader

\* A panic ends the program
Running == panicked = "none"

\* ------------------------------------------------- channels and contexts
\* The part of the state an event on a request changes: the table the lock
\* guards, the request objects and the callers blocked on them. ret starts
\* empty in every step.
World == [loginRequests |-> loginRequests, login2FAIdx |-> login2FAIdx,
          reqs |-> reqs, pc |-> pc, call |-> call, dpc |-> dpc, dcall |-> dcall,
          ret |-> {}, panicked |-> panicked]

\* The requests something still refers to: the table, a caller, a handler
referenced(w) ==
    TableReqs(w.loginRequests) \cup {w.call[c].req : c \in Callers}
                               \cup {w.dcall[d].req : d \in Delivs}

\* The next state; the garbage collector has taken the unreferenced requests
SetWorld(w) ==
    /\ loginRequests' = w.loginRequests
    /\ login2FAIdx' = w.login2FAIdx
    /\ reqs' = [r \in DOMAIN w.reqs |->
                  IF r \in referenced(w) THEN w.reqs[r] ELSE DeadReq]
    /\ pc' = w.pc
    /\ call' = w.call
    /\ dpc' = w.dpc
    /\ dcall' = w.dcall
    /\ ret' = w.ret
    /\ panicked' = w.panicked

\* The callers parked in the select on a request of S
parkedOn(w, S) == {c \in Callers : w.pc[c] = "parked" /\ w.call[c].req \in S}

\* Caller c returns (val, err) from its ask
return(w, C, val, err) ==
    [w EXCEPT
        !.pc = [c \in Callers |-> IF c \in C THEN "idle" ELSE w.pc[c]],
        !.call = [c \in Callers |-> IF c \in C THEN NoCall ELSE w.call[c]],
        !.ret = w.ret \cup {Return(w.reqs[w.call[c].req], val, err) : c \in C}]

\* req.cancel(), or the context's timer firing, for every request in S:
\* ctx.Done() is closed; a caller parked in its select wakes in the ctx.Done()
\* case.
cancel(w, S) ==
    [w EXCEPT
        !.reqs = [r \in DOMAIN w.reqs |->
                    IF r \in S THEN [w.reqs[r] EXCEPT !.done = TRUE] ELSE w.reqs[r]],
        !.pc = [c \in Callers |->
                    IF c \in parkedOn(w, S) THEN "timedout" ELSE w.pc[c]]]

\* close(req.response) for every request in S: a caller parked in its select
\* wakes in the receive case with ok = false and returns ErrCanceled. Closing a
\* closed channel panics.
closeChan(w, S) ==
    LET w1 == return(w, parkedOn(w, S), <<>>, ErrCanceled)
    IN [w1 EXCEPT
          !.reqs = [r \in DOMAIN w.reqs |->
                      IF r \in S THEN [w.reqs[r] EXCEPT !.closed = TRUE] ELSE w.reqs[r]],
          !.panicked = IF \E r \in S : w.reqs[r].closed
                       THEN "close of closed channel" ELSE w.panicked]

\* Ghost: why the table dropped the requests in S.
ended(w, S, why) ==
    [w EXCEPT
        !.reqs = [r \in DOMAIN w.reqs |->
                    IF r \in S THEN [w.reqs[r] EXCEPT !.end = why] ELSE w.reqs[r]]]

\* ------------------------------------------------------------- the table
slotOf(w, chat, kind) ==
    IF chat \in DOMAIN w.loginRequests /\ kind \in DOMAIN w.loginRequests[chat]
    THEN {w.loginRequests[chat][kind]} ELSE {}

newRequest(chat, kind) ==
    [chat |-> chat, kind |-> kind, created |-> now, buf |-> <<>>,
     closed |-> FALSE, done |-> FALSE,
     nsent |-> 0, end |-> "none", removedFor |-> NoReq]

\* createRequest: under the lock, cancel and close the existing request of
\* (chat, kind), then register a new one, the last of the result's reqs.
createRequest(w, chat, kind) ==
    LET existing == slotOf(w, chat, kind)
        w1 == closeChan(cancel(ended(w, existing, "superseded"), existing), existing)
        id == Len(w.reqs) + 1
        chatReqs == IF chat \in DOMAIN w.loginRequests
                    THEN w.loginRequests[chat] ELSE EmptyMap
    IN [w1 EXCEPT
          !.reqs = Append(w1.reqs, newRequest(chat, kind)),
          !.loginRequests = Put(w.loginRequests, chat, Put(chatReqs, kind, id))]

\* A removeRequest that drops the chat with all its requests
removeRequestDropsChat(w, chat, kind, onBehalf) ==
    IF chat \notin DOMAIN w.loginRequests THEN w
    ELSE
      LET req == slotOf(w, chat, kind)
          w1 == cancel([w EXCEPT
                          !.reqs = [r \in DOMAIN w.reqs |->
                                      IF r \in req
                                      THEN [w.reqs[r] EXCEPT !.removedFor = onBehalf]
                                      ELSE w.reqs[r]]],
                       req)
      IN [w1 EXCEPT !.loginRequests = Del(w.loginRequests, chat),
                    !.login2FAIdx = Del(w.login2FAIdx, chat)]

\* A removeRequest that keeps the entry of a chat without requests
removeRequestKeepsChat(w, chat, kind, onBehalf) ==
    IF chat \notin DOMAIN w.loginRequests THEN w
    ELSE
      LET req == slotOf(w, chat, kind)
          w1 == cancel([w EXCEPT
                          !.reqs = [r \in DOMAIN w.reqs |->
                                      IF r \in req
                                      THEN [w.reqs[r] EXCEPT !.removedFor = onBehalf]
                                      ELSE w.reqs[r]]],
                       req)
      IN [w1 EXCEPT !.loginRequests =
                        Put(w.loginRequests, chat, Del(w.loginRequests[chat], kind))]

\* removeRequest: under the lock, cancel and delete whatever request (chat, kind)
\* holds now; drop the chat and its 2FA index once the chat has no request.
\* `onBehalf` is the request the calling goroutine worked on (ghost).
removeRequest(w, chat, kind, onBehalf) ==
    IF chat \notin DOMAIN w.loginRequests THEN w
    ELSE
      LET req == slotOf(w, chat, kind)
          w1 == cancel([w EXCEPT
                          !.reqs = [r \in DOMAIN w.reqs |->
                                      IF r \in req
                                      THEN [w.reqs[r] EXCEPT !.removedFor = onBehalf]
                                      ELSE w.reqs[r]]],
                       req)
          chatReqs == Del(w.loginRequests[chat], kind)
      IN IF DOMAIN chatReqs = {}
         THEN [w1 EXCEPT !.loginRequests = Del(w.loginRequests, chat),
                         !.login2FAIdx = Del(w.login2FAIdx, chat)]
         ELSE [w1 EXCEPT !.loginRequests = Put(w.loginRequests, chat, chatReqs)]

\* getRequest: the request of (chat, kind), as a set of at most one
getRequest(chat, kind) == slotOf(World, chat, kind)

\* ------------------------------------------------------------------- ask
promptOf(kind) ==
    CASE kind = reqType2Fa -> "twofaCodeMsg"
      [] kind = reqTypeCode -> "loginCodeMsg"
      [] kind = reqTypePhone -> "phoneMsg"

\* fmt.Sprintf(msg2FaIncorrect, attemptLeft): the notice with the attempts left
msg2FaIncorrect(attemptLeft) == "msg2FaIncorrect " \o ToString(attemptLeft)

\* Asks that have started and not yet called createRequest
Starting == {c \in Callers : pc[c] \in {"prompt", "create"}}

UnchangedHandlers == UNCHANGED <<dpc, dcall>>
UnchangedClock == UNCHANGED <<now, tickerC, sweeper, done, scope, merger, mout, mutex, reader>>
UnchangedTable == UNCHANGED <<loginRequests, login2FAIdx, reqs>>

\* AskSend with the request registered before the prompt is sent
AskSendOpensFirst(c, chat, kind, attemptLeft, ok) ==
    /\ Running
    /\ logged' = NoLog
    /\ pc[c] = "idle"
    /\ Len(reqs) + Cardinality(Starting) < MaxReqs
    /\ attemptLeft > 0 => kind = reqType2Fa
    /\ sent' = [chat |-> chat,
                msg |-> IF attemptLeft > 0 THEN msg2FaIncorrect(attemptLeft)
                        ELSE promptOf(kind),
                ok |-> ok]
    /\ LET w == createRequest(World, chat, kind)
       IN IF ok
          THEN SetWorld([w EXCEPT
                 !.pc[c] = IF kind = reqType2Fa THEN "idx" ELSE "select",
                 !.call[c] = [chat |-> chat, kind |-> kind,
                              attemptLeft |-> attemptLeft, req |-> Len(reqs) + 1]])
          ELSE SetWorld([w EXCEPT !.ret = {Return(DeadReq, <<>>, ErrSend)}])
    /\ UnchangedClock

\* Ask2FACode / SendCodeRequest / AskPhone, up to the first sender.Send: the
\* "incorrect, N attempts remaining" notice of a 2FA retry, the prompt otherwise.
AskSend(c, chat, kind, attemptLeft, ok) ==
    /\ Running
    /\ logged' = NoLog
    /\ pc[c] = "idle"
    /\ Len(reqs) + Cardinality(Starting) < MaxReqs
    /\ attemptLeft > 0 => kind = reqType2Fa   \* only Ask2FACode takes the count
    /\ sent' = [chat |-> chat,
                msg |-> IF attemptLeft > 0 THEN msg2FaIncorrect(attemptLeft)
                        ELSE promptOf(kind),
                ok |-> ok]
    /\ IF ok
       THEN /\ pc' = [pc EXCEPT ![c] = IF attemptLeft > 0 THEN "prompt" ELSE "create"]
            /\ call' = [call EXCEPT ![c] = [chat |-> chat, kind |-> kind,
                                            attemptLeft |-> attemptLeft, req |-> NoReq]]
            /\ ret' = {}
       ELSE /\ ret' = {Return(DeadReq, <<>>, ErrSend)}
            /\ UNCHANGED <<pc, call>>
    /\ UNCHANGED panicked
    /\ UnchangedTable /\ UnchangedHandlers /\ UnchangedClock

\* A retry that registers its request before it sends the prompt
AskPromptCreatesFirst(c, ok) ==
    /\ Running
    /\ logged' = NoLog
    /\ pc[c] = "prompt"
    /\ sent' = [chat |-> call[c].chat, msg |-> promptOf(call[c].kind), ok |-> ok]
    /\ LET w == createRequest(World, call[c].chat, call[c].kind)
       IN IF ok
          THEN SetWorld([w EXCEPT !.pc[c] = "idx", !.call[c].req = Len(reqs) + 1])
          ELSE SetWorld([w EXCEPT !.pc[c] = "idle", !.call[c] = NoCall,
                                  !.ret = {Return(DeadReq, <<>>, ErrSend)}])
    /\ UnchangedClock

\* Ask2FACode on a retry, after the notice and the sleep: the prompt
AskPrompt(c, ok) ==
    /\ Running
    /\ logged' = NoLog
    /\ pc[c] = "prompt"
    /\ sent' = [chat |-> call[c].chat, msg |-> promptOf(call[c].kind), ok |-> ok]
    /\ IF ok
       THEN /\ pc' = [pc EXCEPT ![c] = "create"]
            /\ ret' = {}
            /\ UNCHANGED call
       ELSE /\ pc' = [pc EXCEPT ![c] = "idle"]
            /\ call' = [call EXCEPT ![c] = NoCall]
            /\ ret' = {Return(DeadReq, <<>>, ErrSend)}
    /\ UNCHANGED panicked
    /\ UnchangedTable /\ UnchangedHandlers /\ UnchangedClock

\* An ask whose createRequest returns with b.mutex still locked
AskCreateHoldsLock(c) ==
    /\ Running
    /\ LockFree
    /\ logged' = NoLog
    /\ pc[c] = "create"
    /\ LET w == createRequest(World, call[c].chat, call[c].kind)
       IN SetWorld([w EXCEPT
                      !.pc[c] = IF call[c].kind = reqType2Fa THEN "idx" ELSE "select",
                      !.call[c].req = Len(reqs) + 1])
    /\ sent' = NoSend
    /\ mutex' = c
    /\ UNCHANGED <<now, tickerC, sweeper, done, scope, merger, mout, reader>>

\* b.createRequest(chatID, reqType) of the ask
AskCreate(c) ==
    /\ Running
    /\ LockFree
    /\ logged' = NoLog
    /\ pc[c] = "create"
    /\ LET w == createRequest(World, call[c].chat, call[c].kind)
       IN SetWorld([w EXCEPT
                      !.pc[c] = IF call[c].kind = reqType2Fa THEN "idx" ELSE "select",
                      !.call[c].req = Len(reqs) + 1])
    /\ sent' = NoSend
    /\ UnchangedClock

\* Ask2FACode: b.login2FAIdx[chatID] = attemptLeft + 1, under the lock
Ask2FAIdx(c) ==
    /\ Running
    /\ LockFree
    /\ logged' = NoLog
    /\ pc[c] = "idx"
    /\ login2FAIdx' = Put(login2FAIdx, call[c].chat, call[c].attemptLeft + 1)
    /\ pc' = [pc EXCEPT ![c] = "select"]
    /\ sent' = NoSend /\ ret' = {}
    /\ UNCHANGED <<loginRequests, reqs, call, panicked>>
    /\ UnchangedHandlers /\ UnchangedClock

\* The select of the ask is evaluated: it takes any case that is ready, and
\* parks the caller when none is.
AskSelect(c) ==
    LET r == call[c].req
        q == reqs[r]
    IN
    /\ Running
    /\ logged' = NoLog
    /\ pc[c] = "select"
    /\ \/ /\ Len(q.buf) > 0                  \* resp, ok := <-respChan, ok
          /\ SetWorld(return([World EXCEPT !.reqs[r].buf = <<>>], {c}, q.buf[1], NoErr))
       \/ /\ Len(q.buf) = 0 /\ q.closed      \* !ok
          /\ SetWorld(return(World, {c}, <<>>, ErrCanceled))
       \/ /\ q.done                          \* <-ctx.Done()
          /\ SetWorld([World EXCEPT !.pc[c] = "timedout"])
       \/ /\ Len(q.buf) = 0 /\ ~q.closed /\ ~q.done
          /\ SetWorld([World EXCEPT !.pc[c] = "parked"])
    /\ sent' = NoSend
    /\ UnchangedClock

\* The ctx.Done() case: b.removeRequest(chatID, reqType); return "", ErrTimeout
AskTimeout(c) ==
    /\ Running
    /\ LockFree
    /\ logged' = NoLog
    /\ pc[c] = "timedout"
    /\ SetWorld(return(removeRequest(World, call[c].chat, call[c].kind, call[c].req),
                       {c}, <<>>, ErrTimeout))
    /\ sent' = NoSend
    /\ UnchangedClock

\* --------------------------------------------------------------- deliver
correctiveOf(kind) ==
    CASE kind = reqType2Fa -> "Invalid 2FA code"
      [] kind = reqTypeCode -> "Text message does not contain a code, please try again."
      [] kind = reqTypePhone -> "Invalid phone number"

\* What a handler logs when the Sender fails on its corrective message
sendErrorLogOf(kind) ==
    IF kind = reqTypePhone THEN "failed to send phone error"
    ELSE "failed to send login code error"

UnchangedCallers == UNCHANGED <<pc, call>>

\* HandleCallback that drops a text failing validation without a word
HandleCallbackSilent(d, chat, kind, text, ok) ==
    /\ Running
    /\ logged' = NoLog
    /\ dpc[d] = "idle"
    /\ IF getRequest(chat, kind) = {} \/ Len(validate(kind, text)) = 0
       THEN UNCHANGED <<dpc, dcall>>
       ELSE /\ dpc' = [dpc EXCEPT ![d] = "send"]
            /\ dcall' = [dcall EXCEPT ![d] =
                            [chat |-> chat, kind |-> kind,
                             req |-> CHOOSE r \in getRequest(chat, kind) : TRUE,
                             val |-> validate(kind, text),
                             msg |-> FALSE, text |-> <<>>, seen |-> 0]]
    /\ sent' = NoSend
    /\ ret' = {}
    /\ UNCHANGED panicked
    /\ UNCHANGED <<loginRequests, login2FAIdx, reqs, pc, call>>
    /\ UNCHANGED <<now, tickerC, sweeper, done, scope, merger, mout, mutex, reader>>

\* HandleCallback that forgets the chat's retry counter when it finds no slot
HandleCallbackClearsChat(d, chat, kind, text, ok) ==
    /\ Running
    /\ dpc[d] = "idle"
    /\ IF getRequest(chat, kind) = {}
       THEN /\ sent' = NoSend
            /\ logged' = "no open login request"
            /\ login2FAIdx' = Del(login2FAIdx, chat)
            /\ UNCHANGED <<dpc, dcall>>
       ELSE IF Len(validate(kind, text)) = 0
       THEN /\ sent' = [chat |-> chat, msg |-> correctiveOf(kind), ok |-> ok]
            /\ logged' = IF ok THEN NoLog ELSE sendErrorLogOf(kind)
            /\ UNCHANGED <<dpc, dcall, login2FAIdx>>
       ELSE /\ dpc' = [dpc EXCEPT ![d] = "send"]
            /\ dcall' = [dcall EXCEPT ![d] =
                            [chat |-> chat, kind |-> kind,
                             req |-> CHOOSE r \in getRequest(chat, kind) : TRUE,
                             val |-> validate(kind, text),
                             msg |-> FALSE, text |-> <<>>, seen |-> 0]]
            /\ sent' = NoSend
            /\ logged' = NoLog
            /\ UNCHANGED login2FAIdx
    /\ ret' = {}
    /\ UNCHANGED panicked
    /\ UNCHANGED <<loginRequests, reqs, pc, call>>
    /\ UNCHANGED <<now, tickerC, sweeper, done, scope, merger, mout, mutex, reader>>

\* handle2FACallback / handleCodeCallback / handlePhoneCallback up to the
\* select: getRequest under the read lock, then the validation of the text and,
\* when it fails, the corrective message (a failure to send it is only logged).
HandleCallback(d, chat, kind, text, ok) ==
    /\ Running
    /\ LockFree
    /\ dpc[d] = "idle"
    /\ IF getRequest(chat, kind) = {}
       THEN /\ sent' = NoSend
            /\ logged' = "no open login request"
            /\ UNCHANGED <<dpc, dcall>>
       ELSE IF Len(validate(kind, text)) = 0
       THEN /\ sent' = [chat |-> chat, msg |-> correctiveOf(kind), ok |-> ok]
            /\ logged' = IF ok THEN NoLog ELSE sendErrorLogOf(kind)
            /\ UNCHANGED <<dpc, dcall>>
       ELSE /\ dpc' = [dpc EXCEPT ![d] = "send"]
            /\ dcall' = [dcall EXCEPT ![d] =
                            [chat |-> chat, kind |-> kind,
                             req |-> CHOOSE r \in getRequest(chat, kind) : TRUE,
                             val |-> validate(kind, text),
                             msg |-> FALSE, text |-> <<>>, seen |-> 0]]
            /\ sent' = NoSend
            /\ logged' = NoLog
    /\ ret' = {}
    /\ UNCHANGED panicked
    /\ UnchangedTable /\ UnchangedCallers /\ UnchangedClock

\* select { case req.response <- code: ... default: ... } on a channel of
\* capacity 1, without the lock
HandleSend(d) ==
    LET r == dcall[d].req
        q == reqs[r]
        waiter == parkedOn(World, {r})
        counted == [World EXCEPT !.reqs[r].nsent = @ + 1]
    IN
    /\ Running
    /\ dpc[d] = "send"
    /\ IF q.closed
       THEN SetWorld([World EXCEPT !.panicked = "send on closed channel"])
       ELSE IF waiter # {}
       THEN SetWorld([return(counted, waiter, dcall[d].val, NoErr)
                         EXCEPT !.dpc[d] = "remove"])
       ELSE IF Len(q.buf) = 0
       THEN SetWorld([counted EXCEPT !.reqs[r].buf = <<dcall[d].val>>,
                                     !.dpc[d] = "remove"])
       ELSE SetWorld([World EXCEPT !.dpc[d] = "idle", !.dcall[d] = NoDCall])
    /\ sent' = NoSend
    /\ logged' = IF ~q.closed /\ waiter = {} /\ Len(q.buf) > 0
                 THEN "failed to send response - channel full or closed"
                 ELSE NoLog
    /\ UnchangedClock

\* b.removeRequest(chatID, reqType) after the send
HandleRemove(d) ==
    /\ Running
    /\ LockFree
    /\ logged' = NoLog
    /\ dpc[d] = "remove"
    /\ SetWorld([removeRequest(World, dcall[d].chat, dcall[d].kind, dcall[d].req)
                    EXCEPT !.dpc[d] = "idle", !.dcall[d] = NoDCall])
    /\ sent' = NoSend
    /\ UnchangedClock

\* ---------------------------------------------------------------- router
\* The updates the transport hands to the middleware: update.Message is set,
\* with its chat and text, or nil
Updates ==
    {[msg |-> TRUE, chat |-> chat, text |-> text] : chat \in Chats, text \in Texts}
        \cup {[msg |-> FALSE, chat |-> 0, text |-> <<>>]}

\* hasAnyRequests: the chat has an entry with at least one request
hasAnyRequests(chat) ==
    chat \in DOMAIN loginRequests /\ DOMAIN loginRequests[chat] # {}

\* LoginMiddlware that consumes every message with a code in it, whether or not
\* the chat has a request
LoginMiddlwareGreedy(d, u) ==
    /\ Running
    /\ logged' = NoLog
    /\ dpc[d] = "idle"
    /\ IF u.msg /\ hasCode(u.text)
       THEN /\ dpc' = [dpc EXCEPT ![d] = "route2fa"]
            /\ dcall' = [dcall EXCEPT ![d] =
                            [NoDCall EXCEPT !.msg = u.msg, !.chat = u.chat,
                                            !.text = u.text, !.seen = Len(reqs)]]
       ELSE /\ dpc' = [dpc EXCEPT ![d] = "next"]
            /\ UNCHANGED dcall
    /\ sent' = NoSend /\ ret' = {}
    /\ UNCHANGED panicked
    /\ UNCHANGED <<loginRequests, login2FAIdx, reqs, pc, call>>
    /\ UNCHANGED <<now, tickerC, sweeper, done, scope, merger, mout, mutex, reader>>

\* LoginMiddlware: the update is consumed (handleMessage, return) when it has a
\* message, the chat has a request and the text holds a 5-digit code; it goes
\* to next otherwise
LoginMiddlware(d, u) ==
    /\ Running
    /\ LockFree
    /\ logged' = NoLog
    /\ dpc[d] = "idle"
    /\ IF u.msg /\ hasAnyRequests(u.chat) /\ hasCode(u.text)
       THEN /\ dpc' = [dpc EXCEPT ![d] = "route2fa"]
            /\ dcall' = [dcall EXCEPT ![d] =
                            [NoDCall EXCEPT !.msg = u.msg, !.chat = u.chat,
                                            !.text = u.text, !.seen = Len(reqs)]]
       ELSE /\ dpc' = [dpc EXCEPT ![d] = "next"]
            /\ UNCHANGED dcall
    /\ sent' = NoSend /\ ret' = {}
    /\ UNCHANGED panicked
    /\ UnchangedTable /\ UnchangedCallers /\ UnchangedClock

\* next(ctx, bot, update): the rest of the chain (commands, callbacks, default
\* handler) runs on the update and returns
NextHandler(d) ==
    /\ Running
    /\ logged' = NoLog
    /\ dpc[d] = "next"
    /\ dpc' = [dpc EXCEPT ![d] = "idle"]
    /\ dcall' = [dcall EXCEPT ![d] = NoDCall]
    /\ sent' = NoSend /\ ret' = {}
    /\ UNCHANGED panicked
    /\ UnchangedTable /\ UnchangedCallers /\ UnchangedClock

\* The switch of handleMessage with phone tested first and two-factor last
routeKindPhoneFirst(d) ==
    CASE dpc[d] = "route2fa" -> reqTypePhone
      [] dpc[d] = "routecode" -> reqTypeCode
      [] dpc[d] = "routephone" -> reqType2Fa

\* The kind the switch of handleMessage is about to test
routeKind(d) ==
    CASE dpc[d] = "route2fa" -> reqType2Fa
      [] dpc[d] = "routecode" -> reqTypeCode
      [] dpc[d] = "routephone" -> reqTypePhone

\* The case that follows a case of the switch: two-factor, code, phone, default
routeAfter(kind) ==
    CASE kind = reqType2Fa -> "routecode"
      [] kind = reqTypeCode -> "routephone"
      [] kind = reqTypePhone -> "none"

\* handleMessage: one case of the switch, b.HasOpenReq(id, kind) under the read
\* lock; the first kind found open gets the text, and when none is open the
\* chat is told so
handleMessage(d, ok) ==
    /\ Running
    /\ LockFree
    /\ dpc[d] \in {"route2fa", "routecode", "routephone"}
    /\ LET kind == routeKind(d)
       IN IF HasSlot(dcall[d].chat, kind)
          THEN /\ dpc' = [dpc EXCEPT ![d] = "handle"]
               /\ dcall' = [dcall EXCEPT ![d].kind = kind]
               /\ sent' = NoSend
          ELSE IF routeAfter(kind) # "none"
          THEN /\ dpc' = [dpc EXCEPT ![d] = routeAfter(kind)]
               /\ UNCHANGED dcall
               /\ sent' = NoSend
          ELSE /\ dpc' = [dpc EXCEPT ![d] = "idle"]
               /\ dcall' = [dcall EXCEPT ![d] = NoDCall]
               /\ sent' = [chat |-> dcall[d].chat, msg |-> "No open login requests",
                           ok |-> ok]
    /\ logged' = IF sent'.ok THEN NoLog ELSE "failed to send login reply error"
    /\ ret' = {}
    /\ UNCHANGED panicked
    /\ UnchangedTable /\ UnchangedCallers /\ UnchangedClock

\* The handler handleMessage chose, up to its select (as HandleCallback)
HandleRouted(d, ok) ==
    LET chat == dcall[d].chat
        kind == dcall[d].kind
        text == dcall[d].text
    IN
    /\ Running
    /\ LockFree
    /\ dpc[d] = "handle"
    /\ IF getRequest(chat, kind) = {}
       THEN /\ sent' = NoSend
            /\ logged' = "no open login request"
            /\ dpc' = [dpc EXCEPT ![d] = "idle"]
            /\ dcall' = [dcall EXCEPT ![d] = NoDCall]
       ELSE IF Len(validate(kind, text)) = 0
       THEN /\ sent' = [chat |-> chat, msg |-> correctiveOf(kind), ok |-> ok]
            /\ logged' = IF ok THEN NoLog ELSE sendErrorLogOf(kind)
            /\ dpc' = [dpc EXCEPT ![d] = "idle"]
            /\ dcall' = [dcall EXCEPT ![d] = NoDCall]
       ELSE /\ dpc' = [dpc EXCEPT ![d] = "send"]
            /\ dcall' = [dcall EXCEPT ![d] =
                            [chat |-> chat, kind |-> kind,
                             req |-> CHOOSE r \in getRequest(chat, kind) : TRUE,
                             val |-> validate(kind, text),
                             msg |-> FALSE, text |-> <<>>, seen |-> 0]]
            /\ sent' = NoSend
            /\ logged' = NoLog
    /\ ret' = {}
    /\ UNCHANGED panicked
    /\ UnchangedTable /\ UnchangedCallers /\ UnchangedClock

\* ------------------------------------------------- sweep, shutdown, time
\* A test that also takes the requests that are exactly Timeout old
isStaleAtTimeout(r) == now - reqs[r].created >= Timeout

isStale(r) == now - reqs[r].created > Timeout

\* One pass of cleanupStaleRequests on a tick of its ticker
Sweep ==
    /\ Running
    /\ LockFree
    /\ logged' = NoLog
    /\ sweeper = "running"
    /\ tickerC
    /\ tickerC' = FALSE
    /\ LET stale == {r \in TableReqs(loginRequests) : isStale(r)}
           w == closeChan(cancel(ended(World, stale, "swept"), stale), stale)
           left == [chat \in DOMAIN loginRequests |->
                      [kind \in {k \in DOMAIN loginRequests[chat] :
                                    loginRequests[chat][k] \notin stale} |->
                          loginRequests[chat][kind]]]
           empty == {chat \in DOMAIN left : DOMAIN left[chat] = {}}
       IN SetWorld([w EXCEPT
                      !.loginRequests = [chat \in (DOMAIN left) \ empty |-> left[chat]],
                      !.login2FAIdx = [chat \in (DOMAIN login2FAIdx) \ empty |->
                                          login2FAIdx[chat]]])
    /\ sent' = NoSend
    /\ UNCHANGED <<now, sweeper, done, scope, merger, mout, mutex, reader>>

\* cleanupStaleRequests returns on <-b.done
SweepDone ==
    /\ Running
    /\ logged' = NoLog
    /\ sweeper = "running"
    /\ done
    /\ sweeper' = "stopped"
    /\ sent' = NoSend /\ ret' = {}
    /\ UNCHANGED <<panicked, now, tickerC, done, scope, merger, mout, mutex, reader>>
    /\ UnchangedTable /\ UnchangedCallers /\ UnchangedHandlers

\* A Shutdown that closes every request and leaves the maps as they are
ShutdownKeepsTable ==
    /\ Running
    /\ LockFree
    /\ logged' = NoLog
    /\ scope.shutdown
    /\ ~done
    /\ done' = TRUE
    /\ LET all == TableReqs(loginRequests)
       IN SetWorld(closeChan(cancel(ended(World, all, "shutdown"), all), all))
    /\ sent' = NoSend
    /\ UNCHANGED <<now, tickerC, sweeper, scope, merger, mout, mutex, reader>>

\* Shutdown: close(b.done), then under the lock cancel and close every request
\* and replace both maps by empty ones
Shutdown ==
    /\ Running
    /\ LockFree
    /\ logged' = NoLog
    /\ scope.shutdown
    /\ ~done
    /\ done' = TRUE
    /\ LET all == TableReqs(loginRequests)
           w == closeChan(cancel(ended(World, all, "shutdown"), all), all)
       IN SetWorld([w EXCEPT !.loginRequests = EmptyMap, !.login2FAIdx = EmptyMap])
    /\ sent' = NoSend
    /\ UNCHANGED <<now, tickerC, sweeper, scope, merger, mout, mutex, reader>>

\* The clock advances: the contexts whose deadline is reached are done, and the
\* running ticker of the sweeper ticks every cleanupInterval.
Tick ==
    /\ Running
    /\ logged' = NoLog
    /\ scope.clock
    /\ now < MaxTime
    /\ now' = now + 1
    /\ tickerC' = (tickerC \/ (sweeper = "running" /\ (now + 1) % cleanupInterval = 0))
    /\ LET due == {r \in DOMAIN reqs : ~reqs[r].done /\ now + 1 >= Deadline(r)}
       IN SetWorld(cancel(World, due))
    /\ sent' = NoSend
    /\ UNCHANGED <<sweeper, done, scope, merger, mout, mutex, reader>>

\* ------------------------------------------------------- specification
Next ==
    \/ \E c \in scope.callers, a \in scope.asks, ok \in BOOLEAN :
            AskSend(c, a[1], a[2], a[3], ok)
    \/ \E c \in Callers, ok \in BOOLEAN : AskPrompt(c, ok)
    \/ \E c \in Callers : AskCreate(c)
    \/ \E c \in Callers : Ask2FAIdx(c)
    \/ \E c \in Callers : AskSelect(c)
    \/ \E c \in Callers : AskTimeout(c)
    \/ \E d \in scope.delivs, h \in scope.handles, text \in Texts, ok \in BOOLEAN :
            HandleCallback(d, h[1], h[2], text, ok)
    \/ \E d \in scope.routers, u \in Updates : LoginMiddlware(d, u)
    \/ \E d \in Delivs : NextHandler(d)
    \/ \E d \in Delivs, ok \in BOOLEAN : handleMessage(d, ok)
    \/ \E d \in Delivs, ok \in BOOLEAN : HandleRouted(d, ok)
    \/ \E d \in Delivs : HandleSend(d)
    \/ \E d \in Delivs : HandleRemove(d)
    \/ Sweep
    \/ SweepDone
    \/ Shutdown
    \/ Tick

Spec == Init /\ [][Next]_vars

\* The steps a goroutine takes by itself once it was started: the Go scheduler
\* runs every runnable goroutine. Asks, updates, Shutdown and the passing of
\* time come from outside and are not forced.
CallerStep(c) ==
    \/ \E ok \in BOOLEAN : AskPrompt(c, ok)
    \/ AskCreate(c)
    \/ Ask2FAIdx(c)
    \/ AskSelect(c)
    \/ AskTimeout(c)

HandlerStep(d) ==
    \/ NextHandler(d)
    \/ \E ok \in BOOLEAN : handleMessage(d, ok)
    \/ \E ok \in BOOLEAN : HandleRouted(d, ok)
    \/ HandleSend(d)
    \/ HandleRemove(d)

Fairness ==
    /\ \A c \in Callers : WF_vars(CallerStep(c))
    /\ \A d \in Delivs : WF_vars(HandlerStep(d))
    /\ WF_vars(Sweep)
    /\ WF_vars(SweepDone)

\* The parts of the program the runs under fairness exercise: a two-factor
\* retry with its handler and Shutdown; a code ask behind the middleware while
\* time passes; two callers asking for the same slot
LiveScopes == {
    [asks |-> {<<42, reqType2Fa, 1>>},
     handles |-> {<<42, reqType2Fa>>},
     callers |-> {"a1"}, delivs |-> {"d1"}, routers |-> {},
     clock |-> FALSE, shutdown |-> TRUE],
    [asks |-> {<<42, reqTypeCode, 0>>},
     handles |-> {},
     callers |-> {"a1"}, delivs |-> {}, routers |-> {"d1"},
     clock |-> TRUE, shutdown |-> FALSE],
    [asks |-> {<<42, reqTypePhone, 0>>},
     handles |-> {},
     callers |-> {"a1", "a2"}, delivs |-> {}, routers |-> {},
     clock |-> FALSE, shutdown |-> FALSE]
}

LiveInit ==
    /\ scope \in LiveScopes
    /\ InitBot
    /\ merger = NoMerger
    /\ mout = NoOut
    /\ reader = NoReader

LiveSpec == LiveInit /\ [][Next]_vars /\ Fairness

\* ------------------------------------------------------------ bot merger
MaxMerges == 3      \* modules handed to MergeBots in one run

KeepOriginal == 0
ReplaceWithNew == 1
SuffixConflicting == 2

\* Strings are sequences of tokens, so that cmd + suffix and suffix + pattern
\* are concatenations and strings.HasPrefix is a prefix of sequences
cmdStart == <<"/start">>
cmdHelp == <<"/help">>
cmdSettings == <<"/settings">>
patBuy == <<"buy">>
patSell == <<"sell">>
DefaultSuffix == <<"_alt">>

HasPrefix(t, prefix) ==
    Len(prefix) <= Len(t) /\ SubSeq(t, 1, Len(prefix)) = prefix

\* The modules (implementations of the Bot interface) that get merged. A
\* handler, callback, description or middleware is named after the module it
\* comes from. `defaultHandler` are the handlers a call of DefaultHandler()'s
\* result runs, in order: the module's own, or the nil function "nil", or for
\* a merger those of its modules. `setSender` are the modules whose sender a
\* call of SetSender sets, `modules` the modules it stands for (itself, or
\* for a merger the modules merged into it).
Bots == {
    [name |-> "bot1",
     commands |-> (cmdStart :> "bot1"),
     callbacks |-> (patBuy :> "bot1"),
     commandsList |-> <<[Command |-> cmdStart, Description |-> "bot1"]>>,
     middleware |-> <<"mw1">>,
     defaultHandler |-> <<"bot1">>,
     setSender |-> {"bot1"},
     modules |-> <<"bot1">>],
    [name |-> "bot2",
     commands |-> (cmdStart :> "bot2") @@ (cmdHelp :> "bot2"),
     callbacks |-> (patBuy :> "bot2"),
     commandsList |-> <<[Command |-> cmdStart, Description |-> "bot2"],
                        [Command |-> cmdHelp, Description |-> "bot2"]>>,
     middleware |-> <<"mw2a", "mw2b">>,
     defaultHandler |-> <<"bot2">>,
     setSender |-> {"bot2"},
     modules |-> <<"bot2">>],
    [name |-> "bot3",
     commands |-> (cmdStart :> "bot3"),
     callbacks |-> (patBuy :> "bot3") @@ (patSell :> "bot3"),
     commandsList |-> <<>>,
     middleware |-> <<"mw3">>,
     defaultHandler |-> <<"bot3">>,
     setSender |-> {"bot3"},
     modules |-> <<"bot3">>],
    [name |-> "bot4",
     commands |-> (cmdSettings :> "bot4"),
     callbacks |-> EmptyMap,
     commandsList |-> <<[Command |-> cmdStart, Description |-> "bot4"]>>,
     middleware |-> <<>>,
     defaultHandler |-> <<"nil">>,
     setSender |-> {"bot4"},
     modules |-> <<"bot4">>]
}

BotNamed(name) == CHOOSE bot \in Bots : bot.name = name

\* The MergerConfig values the program passes to NewBotMerger: a suffix is set,
\* or forgotten, with the strategy that uses it
AllConfigs ==
    {config \in [ConflictStrategy : {KeepOriginal, ReplaceWithNew, SuffixConflicting},
                 DefaultSuffix : {<<>>, DefaultSuffix},
                 FailOnConflict : BOOLEAN,
                 Logger : {"nil", "logger"}] :
        config.ConflictStrategy # SuffixConflicting => config.DefaultSuffix = <<>>}

\* A validation that only looks at the logger
validateConfigLoggerOnly(config) ==
    IF config.Logger = "nil" THEN "logger cannot be nil" ELSE NoErr

validateConfig(config) ==
    IF config.Logger = "nil" THEN "logger cannot be nil"
    ELSE IF config.ConflictStrategy = SuffixConflicting /\ config.DefaultSuffix = <<>>
    THEN "default suffix must be set when using SuffixConflicting strategy"
    ELSE NoErr

\* MergerConfig, as validateConfig accepts it
Configs == {config \in AllConfigs : validateConfig(config) = NoErr}

\* NewBotMerger: empty maps and slices. `merged` (ghost) are the modules handed
\* to mergeBot so far, `botSender` the sender each module holds, `err` the
\* result of the last MergeBots.
NewBotMerger(config) ==
    [config |-> config,
     commands |-> EmptyMap,
     callbacks |-> EmptyMap,
     middleware |-> <<>>,
     commandsList |-> <<>>,
     defaultHandlers |-> <<>>,
     setSenders |-> <<>>,
     sender |-> "nil",
     botSender |-> [name \in {bot.name : bot \in Bots} |-> "nil"],
     merged |-> <<>>,
     err |-> NoErr]

\* The orders in which a range over a map with the keys S may visit them
Orders(S) ==
    {o \in [1..Cardinality(S) -> S] : \A i, j \in 1..Cardinality(S) : o[i] = o[j] => i = j}

\* A conflict handler that lets the new handler win whatever the strategy
handleCommandConflictReplaces(m, cmd, newHandler) ==
    IF m.config.FailOnConflict
    THEN [m EXCEPT !.err = "command conflict detected"]
    ELSE [m EXCEPT !.commands = Put(m.commands, cmd, newHandler)]

\* A conflict handler that keeps the existing callback whatever the strategy
handleCallbackConflictKeeps(m, pattern, newCallback) ==
    IF m.config.FailOnConflict
    THEN [m EXCEPT !.err = "callback conflict detected"]
    ELSE m

\* handleCommandConflict: the merger after the conflict on cmd is handled, with
\* `err` set when the configuration fails on conflicts
handleCommandConflict(m, cmd, newHandler) ==
    IF m.config.FailOnConflict
    THEN [m EXCEPT !.err = "command conflict detected"]
    ELSE IF m.config.ConflictStrategy = ReplaceWithNew
    THEN [m EXCEPT !.commands = Put(m.commands, cmd, newHandler)]
    ELSE IF m.config.ConflictStrategy = SuffixConflicting
    THEN [m EXCEPT !.commands = Put(m.commands, cmd \o m.config.DefaultSuffix, newHandler)]
    ELSE m

\* mergeCommands, with the keys of newCmds visited in the given order
RECURSIVE mergeCommands(_, _, _)
mergeCommands(m, newCmds, order) ==
    IF order = <<>> THEN m
    ELSE LET cmd == Head(order) IN
         IF cmd \in DOMAIN m.commands
         THEN LET r == handleCommandConflict(m, cmd, newCmds[cmd]) IN
              IF r.err # NoErr THEN r ELSE mergeCommands(r, newCmds, Tail(order))
         ELSE mergeCommands([m EXCEPT !.commands = Put(m.commands, cmd, newCmds[cmd])],
                            newCmds, Tail(order))

handleCallbackConflict(m, pattern, newCallback) ==
    IF m.config.FailOnConflict
    THEN [m EXCEPT !.err = "callback conflict detected"]
    ELSE IF m.config.ConflictStrategy = ReplaceWithNew
    THEN [m EXCEPT !.callbacks = Put(m.callbacks, pattern, newCallback)]
    ELSE IF m.config.ConflictStrategy = SuffixConflicting
    THEN [m EXCEPT !.callbacks = Put(m.callbacks, m.config.DefaultSuffix \o pattern, newCallback)]
    ELSE m

RECURSIVE mergeCallbacks(_, _, _)
mergeCallbacks(m, newCallbacks, order) ==
    IF order = <<>> THEN m
    ELSE LET pattern == Head(order) IN
         IF pattern \in DOMAIN m.callbacks
         THEN LET r == handleCallbackConflict(m, pattern, newCallbacks[pattern]) IN
              IF r.err # NoErr THEN r ELSE mergeCallbacks(r, newCallbacks, Tail(order))
         ELSE mergeCallbacks([m EXCEPT !.callbacks = Put(m.callbacks, pattern, newCallbacks[pattern])],
                             newCallbacks, Tail(order))

\* One round of the outer loop of mergeCommandsList. The inner loop stops at
\* the first entry with the same command; replacing the description assigns to
\* the loop's copy of the entry, so the list keeps the old description.
mergeListEntry(m, cmd) ==
    LET exists == \E i \in 1..Len(m.commandsList) : m.commandsList[i].Command = cmd.Command
        suffixedCmd == [cmd EXCEPT !.Command = cmd.Command \o m.config.DefaultSuffix]
    IN  IF exists
        THEN IF m.config.ConflictStrategy = SuffixConflicting
             THEN [m EXCEPT !.commandsList = Append(m.commandsList, suffixedCmd)]
             ELSE m
        ELSE IF m.config.ConflictStrategy # SuffixConflicting
             THEN [m EXCEPT !.commandsList = Append(m.commandsList, cmd)]
             ELSE m

RECURSIVE mergeCommandsList(_, _)
mergeCommandsList(m, newCommands) ==
    IF newCommands = <<>> THEN m
    ELSE mergeCommandsList(mergeListEntry(m, Head(newCommands)), Tail(newCommands))

\* A merge step that does not hand the stored sender to the module
mergeRestKeepsSender(m, bot) ==
    [m EXCEPT !.middleware = m.middleware \o bot.middleware,
              !.defaultHandlers = Append(m.defaultHandlers, bot.defaultHandler),
              !.setSenders = Append(m.setSenders, bot.setSender)]

\* A merge step that puts the module's middleware in front of the chain
mergeRestPrepends(m, bot) ==
    [m EXCEPT !.middleware = bot.middleware \o m.middleware,
              !.defaultHandlers = Append(m.defaultHandlers, bot.defaultHandler),
              !.setSenders = Append(m.setSenders, bot.setSender),
              !.botSender = [name \in DOMAIN m.botSender |->
                                IF m.sender # "nil" /\ name \in bot.setSender
                                THEN m.sender ELSE m.botSender[name]]]

\* What mergeBot does after the three collections are merged without error
mergeRest(m, bot) ==
    [m EXCEPT !.middleware = m.middleware \o bot.middleware,
              !.defaultHandlers = Append(m.defaultHandlers, bot.defaultHandler),
              !.setSenders = Append(m.setSenders, bot.setSender),
              !.botSender = [name \in DOMAIN m.botSender |->
                                IF m.sender # "nil" /\ name \in bot.setSender
                                THEN m.sender ELSE m.botSender[name]]]

\* mergeBot, for one order of the module's commands and one of its callbacks
mergeBot(m, bot, cmdOrder, cbOrder) ==
    LET m0 == [m EXCEPT !.merged = m.merged \o bot.modules]
        m1 == mergeCommands(m0, bot.commands, cmdOrder)
        m2 == mergeCommandsList(m1, bot.commandsList)
        m3 == mergeCallbacks(m2, bot.callbacks, cbOrder)
    IN  IF m1.err # NoErr THEN m1
        ELSE IF m3.err # NoErr THEN m3
        ELSE mergeRest(m3, bot)

\* The mergers mergeBot can leave, over the orders of the two map ranges
mergeBotResults(m, bot) ==
    {mergeBot(m, bot, cmdOrder, cbOrder) :
        cmdOrder \in Orders(DOMAIN bot.commands), cbOrder \in Orders(DOMAIN bot.callbacks)}

\* The mergers MergeBots(bots...) can leave: the modules are merged in order
\* and the first error stops the loop
RECURSIVE mergeAll(_, _)
mergeAll(m, bots) ==
    IF bots = <<>> THEN {m}
    ELSE UNION {IF r.err # NoErr THEN {r} ELSE mergeAll(r, Tail(bots)) :
                    r \in mergeBotResults(m, BotNamed(Head(bots)))}

BotLists == UNION {[1..n -> {bot.name : bot \in Bots}] : n \in 1..2}

Senders == {"s1", "s2"}

\* The maps of the merger that a merge leaving it as m2 has written to (a
\* write that stores the value a key already has is not counted)
Written(m2) == {coll \in {"commands", "callbacks"} : m2[coll] # merger[coll]}

\* A merge writes, under the write lock, to a map the reader is ranging over
\* without a lock: a data race. The runtime either throws the fatal error of
\* its map-access check or lets both go on.
RacesWithReader(m2) ==
    IF reader.pc \in Written(m2)
    THEN /\ reader' = [reader EXCEPT !.raced = TRUE]
         /\ panicked' \in {panicked, "concurrent map iteration and map write"}
    ELSE UNCHANGED <<reader, panicked>>

\* m, err := NewBotMerger(config): no merger when validateConfig rejects config
NewMerger(config) ==
    /\ Running
    /\ merger = NoMerger
    /\ merger' = IF validateConfig(config) = NoErr THEN NewBotMerger(config) ELSE NoMerger
    /\ mout' = [NoOut EXCEPT !.call = "NewBotMerger", !.err = validateConfig(config)]
    /\ UNCHANGED <<loginRequests, login2FAIdx, reqs, pc, call, dpc, dcall, now,
                   tickerC, sweeper, done, scope, sent, ret, logged, mutex, reader, panicked>>

\* m.MergeBots(bots...): the whole call is one critical section
MergeBots(bots) ==
    /\ Running
    /\ merger # NoMerger
    /\ Len(merger.merged) + Len(bots) <= MaxMerges
    /\ merger' \in mergeAll([merger EXCEPT !.err = NoErr], bots)
    /\ mout' = [NoOut EXCEPT !.call = "MergeBots", !.err = merger'.err]
    /\ RacesWithReader(merger')
    /\ UNCHANGED <<loginRequests, login2FAIdx, reqs, pc, call, dpc, dcall, now,
                   tickerC, sweeper, done, scope, sent, ret, logged, mutex>>

\* The handlers a sequence of default handlers runs when called one by one
RECURSIVE Flatten(_)
Flatten(handlers) ==
    IF handlers = <<>> THEN <<>> ELSE Head(handlers) \o Flatten(Tail(handlers))

\* A merger whose SetSender keeps the sender to itself
AsBotKeepsSender(a) ==
    [name |-> "merger",
     commands |-> a.commands,
     callbacks |-> a.callbacks,
     commandsList |-> a.commandsList,
     middleware |-> a.middleware,
     defaultHandler |-> Flatten(a.defaultHandlers),
     setSender |-> {},
     modules |-> a.merged]

\* A merger a, seen through the Bot interface it implements: Commands(),
\* CallBacks(), CommandsList() and Middleware() return its collections,
\* DefaultHandler() a function that calls its default handlers, and SetSender
\* calls the setSender of every module merged into it
AsBot(a) ==
    [name |-> "merger",
     commands |-> a.commands,
     callbacks |-> a.callbacks,
     commandsList |-> a.commandsList,
     middleware |-> a.middleware,
     defaultHandler |-> Flatten(a.defaultHandlers),
     setSender |-> UNION {a.setSenders[i] : i \in 1..Len(a.setSenders)},
     modules |-> a.merged]

\* a := NewBotMerger(m.config); a.MergeBots(bots...) without error; then
\* m.MergeBots(a): a second merger of the same configuration is merged as a
\* module
MergeNested(bots) ==
    /\ Running
    /\ merger # NoMerger
    /\ Len(merger.merged) + Len(bots) <= MaxMerges
    /\ \E a \in mergeAll(NewBotMerger(merger.config), bots) :
            /\ a.err = NoErr
            /\ merger' \in mergeBotResults([merger EXCEPT !.err = NoErr], AsBot(a))
    /\ mout' = [NoOut EXCEPT !.call = "MergeBots(merger)", !.err = merger'.err]
    /\ RacesWithReader(merger')
    /\ UNCHANGED <<loginRequests, login2FAIdx, reqs, pc, call, dpc, dcall, now,
                   tickerC, sweeper, done, scope, sent, ret, logged, mutex>>

\* m.SetSender(s)
SetSender(s) ==
    /\ Running
    /\ merger # NoMerger
    /\ mout' = [NoOut EXCEPT !.call = "SetSender"]
    /\ merger' = [merger EXCEPT
            !.sender = s,
            !.botSender = [name \in DOMAIN merger.botSender |->
                IF \E i \in 1..Len(merger.setSenders) : name \in merger.setSenders[i]
                THEN s ELSE merger.botSender[name]]]
    /\ UNCHANGED <<loginRequests, login2FAIdx, reqs, pc, call, dpc, dcall, now,
                   tickerC, sweeper, done, scope, sent, ret, logged, mutex, reader, panicked>>

\* m.DefaultHandler()(ctx, b, update): calls the accumulated default handlers
\* in order; the call of a nil function is a runtime panic
DefaultHandler ==
    /\ Running
    /\ merger # NoMerger
    /\ LET calls == Flatten(merger.defaultHandlers)
           nils == {i \in 1..Len(calls) : calls[i] = "nil"}
           n == IF nils = {} THEN Len(calls)
                ELSE (CHOOSE i \in nils : \A j \in nils : i <= j) - 1
       IN  /\ mout' = [NoOut EXCEPT !.call = "DefaultHandler", !.invoked = SubSeq(calls, 1, n)]
           /\ panicked' = IF nils = {} THEN panicked
                          ELSE "invalid memory address or nil pointer dereference"
    /\ UNCHANGED <<loginRequests, login2FAIdx, reqs, pc, call, dpc, dcall, now,
                   tickerC, sweeper, done, scope, sent, ret, logged, merger, mutex, reader>>

\* The dispatch path calls m.Commands() (the caption middleware) or
\* m.CallBacks(): the read lock is taken, the map itself is returned and the
\* lock released; the caller then ranges over that map
ReadMap(coll) ==
    /\ Running
    /\ merger # NoMerger
    /\ reader.pc = "idle"
    /\ reader' = [pc |-> coll, raced |-> FALSE]
    /\ mout' = [NoOut EXCEPT !.call = IF coll = "commands" THEN "Commands" ELSE "CallBacks"]
    /\ UNCHANGED <<loginRequests, login2FAIdx, reqs, pc, call, dpc, dcall, now,
                   tickerC, sweeper, done, scope, sent, ret, logged, merger, mutex,
                   panicked>>

\* The range over the returned map ends
ReadDone ==
    /\ Running
    /\ reader.pc # "idle"
    /\ reader' = NoReader
    /\ mout' = [NoOut EXCEPT !.call = "range"]
    /\ UNCHANGED <<loginRequests, login2FAIdx, reqs, pc, call, dpc, dcall, now,
                   tickerC, sweeper, done, scope, sent, ret, logged, merger, mutex,
                   panicked>>

\* Prefix-matching dispatch of a message text over m.Commands(): the handlers
\* that may be run. The commands are visited in the order of a map range and
\* the first one that is a prefix of the text wins.
Resolve(m, text) ==
    {m.commands[command] : command \in {c \in DOMAIN m.commands : HasPrefix(text, c)}}

\* Dispatch of callback query data over m.CallBacks(), all patterns registered
\* with the prefix match type
ResolveCallback(m, data) ==
    {m.callbacks[pattern] : pattern \in {c \in DOMAIN m.callbacks : HasPrefix(data, c)}}

\* A program that only builds a merger: no login bot is running
NoScope ==
    [asks |-> {}, handles |-> {}, callers |-> {}, delivs |-> {}, routers |-> {},
     clock |-> FALSE, shutdown |-> FALSE]

MergeInit ==
    scope = NoScope /\ InitBot /\ merger = NoMerger /\ mout = NoOut /\ reader = NoReader

MergeNext ==
    \/ \E config \in AllConfigs : NewMerger(config)
    \/ \E bots \in BotLists : MergeBots(bots)
    \/ \E bots \in BotLists : MergeNested(bots)
    \/ \E s \in Senders : SetSender(s)
    \/ DefaultHandler

MergeSpec == MergeInit /\ [][MergeNext]_vars

\* A merger that is read by the dispatch path while modules are merged
ReadNext ==
    \/ \E config \in Configs : NewMerger(config)
    \/ \E bots \in BotLists : MergeBots(bots)
    \/ \E coll \in {"commands", "callbacks"} : ReadMap(coll)
    \/ ReadDone

ReadSpec == MergeInit /\ [][ReadNext]_vars

\* ---------------------------------------------------------------- claims
\* The deadline of the request an ask returned from has not been reached
BeforeDeadline(e) == now < e.created + Timeout

AskMsgs == {promptOf(kind) : kind \in Kinds} \cup {msg2FaIncorrect(n) : n \in 1..3}
Correctives == {correctiveOf(kind) : kind \in Kinds}

\* C1: an ask whose request a later ask for the same (chat, kind) superseded,
\* without an answer and before its deadline, returns ErrCanceled.
C1_SupersededReturnsCanceled ==
    \A e \in ret :
        (e.end = "superseded" /\ e.nsent = 0 /\ BeforeDeadline(e))
            => e.err = ErrCanceled

\* C2: a request leaves the table only by its own end: removeRequest drops it
\* only for the goroutine that timed out on it or answered it (supersede, sweep
\* and Shutdown are its other ends), never on the return path of another ask.
C2_SlotKeptUntilOwnEnd ==
    \A r \in DOMAIN reqs : reqs[r].removedFor \in {NoReq, r}

\* C3: an ask whose request was sent a validated value returns it without an
\* error (the request neither superseded, swept nor shut down, its deadline
\* not reached).
C3_AnswerIsReturned ==
    \A e \in ret :
        (e.nsent > 0 /\ e.end = "none" /\ BeforeDeadline(e))
            => (e.err = NoErr /\ Len(e.val) > 0)

\* C4: an ask whose request Shutdown cancelled returns ErrCanceled, and Shutdown
\* leaves both maps empty.
C4_ShutdownCancels ==
    /\ \A e \in ret : (e.end = "shutdown" /\ e.nsent = 0) => e.err = ErrCanceled
    /\ (done /\ \A c \in Callers : pc[c] = "idle")
          => (loginRequests = EmptyMap /\ login2FAIdx = EmptyMap)

\* C5: a handler whose request was closed between its lookup and its send drops
\* the delivery: the send never panics.
C5_SendNeverPanics == panicked # "send on closed channel"

\* C6: the response channel of a request is sent at most one value.
C6_AtMostOneValue == \A r \in DOMAIN reqs : reqs[r].nsent <= 1

\* C7: an ask whose request reached its deadline without an answer, a supersede
\* or a shutdown returns ErrTimeout, and (chat, kind) then has no slot, nor the
\* chat an entry without slots.
C7_TimeoutReturnsErrTimeout ==
    \A e \in ret :
        (e.nsent = 0 /\ e.end \in {"none", "swept"} /\ ~BeforeDeadline(e))
            => /\ e.err = ErrTimeout
               /\ ~HasSlot(e.chat, e.kind)
               /\ e.chat \in DOMAIN loginRequests => DOMAIN loginRequests[e.chat] # {}

\* C8: an ask whose request got no answer (and was neither superseded nor shut
\* down) returns a timeout error, and no earlier than Timeout after the request
\* was opened, also when the sweep evicted the request.
C8_TimeoutNotBeforeT ==
    \A e \in ret :
        (e.nsent = 0 /\ e.end \in {"none", "swept"})
            => (e.err = ErrTimeout /\ ~BeforeDeadline(e))

\* C9: a step in which the Sender fails on a prompt or on the retry notice of an
\* ask is the return of that ask with the send error: it created no request and
\* changes neither the table, nor the retry counters, nor any request.
C9_SendFailureOpensNothing ==
    [][(~sent'.ok /\ sent'.msg \in AskMsgs)
          => /\ ret' = {Return(DeadReq, <<>>, ErrSend)}
             /\ UNCHANGED <<loginRequests, login2FAIdx, reqs>>
             /\ \A c \in Callers : pc'[c] = pc[c] \/ (pc'[c] = "idle" /\ call'[c] = NoCall)
      ]_vars

\* C9 witness: the prompt of an ask failed while (chat, kind) had an open slot
C9_Witness ==
    /\ ~sent.ok
    /\ \E kind \in Kinds : sent.msg = promptOf(kind) /\ HasSlot(sent.chat, kind)
    /\ ret = {Return(DeadReq, <<>>, ErrSend)}

\* C10: a handler step on a text that fails the validation of the open slot's
\* kind sends the corrective prompt of that kind to the chat and changes
\* nothing else: the slot stays, its caller stays blocked, no ask returns.
C10_InvalidTextKeepsSlot ==
    [][\A d \in scope.delivs, h \in scope.handles, text \in Texts :
          (HasSlot(h[1], h[2]) /\ Len(validate(h[2], text)) = 0) =>
          \A ok \in BOOLEAN :
            HandleCallback(d, h[1], h[2], text, ok)
            => /\ sent' = [chat |-> h[1], msg |-> correctiveOf(h[2]), ok |-> ok]
               /\ ret' = {}
               /\ UNCHANGED <<loginRequests, login2FAIdx, reqs, pc, call, dpc, dcall>>
      ]_vars

\* C10 witness: a corrective prompt was sent for a slot that is still open, with
\* its caller still parked on it
C10_Witness ==
    \E kind \in Kinds :
        /\ sent.msg = correctiveOf(kind)
        /\ HasSlot(sent.chat, kind)
        /\ \E c \in Callers :
              pc[c] = "parked" /\ call[c].req = loginRequests[sent.chat][kind]

\* C11: an ask whose open two-factor request was delivered a text that is not
\* blank returns that text, trimmed, without an error (the request neither
\* superseded, swept nor shut down, its deadline not reached).
C11_TwoFaTextIsReturned ==
    \A e \in ret :
        (e.kind = reqType2Fa /\ e.nsent > 0 /\ e.end = "none" /\ BeforeDeadline(e))
            => /\ e.err = NoErr
               /\ e.val \in {TrimSpace(t) : t \in Texts} \ {<<>>}

\* C12: the middleware consumes every message of a chat whose two-factor slot is
\* open when the text is not blank, whatever its shape.
C12_TwoFaConsumesAnyText ==
    [][\A d \in Delivs, u \in Updates :
          (LoginMiddlware(d, u) /\ u.msg /\ HasSlot(u.chat, reqType2Fa)
             /\ Len(TrimSpace(u.text)) > 0)
          => dpc'[d] = "route2fa"
      ]_vars

\* C13: the middleware either consumes an update or passes it to next, never
\* both: an update without a message or of a chat without a request goes to
\* next and the table stays as it is; next is entered from the middleware only
\* (never in the course of handling a consumed update) and returns once.
C13_PassedOnIffNotConsumed ==
    [][/\ \A d \in Delivs, u \in Updates :
            LoginMiddlware(d, u)
            => /\ (dpc'[d] = "next") # (dpc'[d] = "route2fa")
               /\ (~u.msg \/ ~hasAnyRequests(u.chat))
                     => /\ dpc'[d] = "next"
                        /\ UNCHANGED <<loginRequests, login2FAIdx, reqs, pc, call>>
       /\ \A d \in Delivs :
            /\ (dpc'[d] = "next" /\ dpc[d] # "next") => dpc[d] = "idle"
            /\ (dpc[d] = "next" /\ dpc'[d] # "next") => dpc'[d] = "idle"
      ]_vars

\* C13 witness: an update was passed to next while the table holds a request
C13_Witness ==
    \E d \in Delivs : dpc[d] = "next" /\ loginRequests # EmptyMap

\* Kinds in the priority of handleMessage
Priority(kind) ==
    CASE kind = reqType2Fa -> 1
      [] kind = reqTypeCode -> 2
      [] kind = reqTypePhone -> 3

\* The slots of the chat of handler d that were open before d's update was
\* consumed and still are
OpenSince(d) ==
    {kind \in Kinds : /\ HasSlot(dcall[d].chat, kind)
                      /\ loginRequests[dcall[d].chat][kind] <= dcall[d].seen}

C15_NoSlotIsNoOp ==
    [][/\ \A d \in scope.delivs, h \in scope.handles :
          ~HasSlot(h[1], h[2]) =>
          \A text \in Texts, ok \in BOOLEAN :
            HandleCallback(d, h[1], h[2], text, ok)
            => /\ UNCHANGED <<loginRequests, login2FAIdx, reqs, pc, call, dpc, dcall>>
               /\ ret' = {} /\ sent' = NoSend /\ panicked' = panicked
               /\ logged' = "no open login request"
       /\ \A d \in Delivs, ok \in BOOLEAN :
            (HandleRouted(d, ok) /\ ~HasSlot(dcall[d].chat, dcall[d].kind))
            => /\ UNCHANGED <<loginRequests, login2FAIdx, reqs, pc, call>>
               /\ dpc'[d] = "idle"
               /\ ret' = {} /\ sent' = NoSend /\ panicked' = panicked
               /\ logged' = "no open login request"
      ]_vars

\* C15 witness: a handler found no slot while an ask is blocked on another slot
C15_Witness ==
    /\ logged = "no open login request"
    /\ \E c \in Callers : pc[c] = "parked" /\ InTable(call[c].req)

\* The positions in the merge order of the modules that define key in the
\* collection coll ("commands" or "callbacks")
Definers(coll, key) ==
    {i \in 1..Len(merger.merged) : key \in DOMAIN BotNamed(merger.merged[i])[coll]}

FirstDefiner(coll, key) ==
    merger.merged[CHOOSE i \in Definers(coll, key) : \A j \in Definers(coll, key) : i <= j]

LastDefiner(coll, key) ==
    merger.merged[CHOOSE i \in Definers(coll, key) : \A j \in Definers(coll, key) : i >= j]

\* A key of the collection that two different merged modules define
Colliding(coll, key) ==
    \E i, j \in Definers(coll, key) : merger.merged[i] # merger.merged[j]

\* C16: under keep-original (and without fail-on-conflict, which aborts the
\* merge instead), after any sequence of merges, every command and every
\* callback pattern of the registry is bound to the handler of the first
\* module, in merge order, that defined it.
C16_KeepOriginalKeepsFirst ==
    (/\ merger # NoMerger
     /\ merger.config.ConflictStrategy = KeepOriginal
     /\ ~merger.config.FailOnConflict) =>
        /\ \A cmd \in DOMAIN merger.commands :
                merger.commands[cmd] = FirstDefiner("commands", cmd)
        /\ \A pattern \in DOMAIN merger.callbacks :
                merger.callbacks[pattern] = FirstDefiner("callbacks", pattern)

C16_Witness ==
    /\ merger # NoMerger
    /\ merger.config.ConflictStrategy = KeepOriginal
    /\ ~merger.config.FailOnConflict
    /\ Len(merger.merged) = 3
    /\ Colliding("commands", cmdStart) /\ cmdStart \in DOMAIN merger.commands
    /\ Colliding("callbacks", patBuy) /\ patBuy \in DOMAIN merger.callbacks

\* C17: under replace-with-new (and without fail-on-conflict, which aborts the
\* merge instead), after any sequence of merges, every command and every
\* callback pattern of the registry is bound to the handler of the last
\* module, in merge order, that defined it.
C17_ReplaceWithNewKeepsLast ==
    (/\ merger # NoMerger
     /\ merger.config.ConflictStrategy = ReplaceWithNew
     /\ ~merger.config.FailOnConflict) =>
        /\ \A cmd \in DOMAIN merger.commands :
                merger.commands[cmd] = LastDefiner("commands", cmd)
        /\ \A pattern \in DOMAIN merger.callbacks :
                merger.callbacks[pattern] = LastDefiner("callbacks", pattern)

C17_Witness ==
    /\ merger # NoMerger
    /\ merger.config.ConflictStrategy = ReplaceWithNew
    /\ ~merger.config.FailOnConflict
    /\ Len(merger.merged) = 3
    /\ Colliding("commands", cmdStart) /\ merger.commands[cmdStart] # merger.merged[1]
    /\ Colliding("callbacks", patBuy) /\ merger.callbacks[patBuy] # merger.merged[1]

\* The modules after the first, in merge order, that define key
LaterDefiners(coll, key) ==
    {merger.merged[i] : i \in {j \in Definers(coll, key) : \E k \in Definers(coll, key) : k < j}}

\* C18: under suffix-conflicting with suffix S (and without fail-on-conflict),
\* after any sequence of merges every command and callback pattern that more
\* than one merged module defines is in the registry in its original form,
\* bound to the first module's handler, and in its suffixed form (command + S,
\* S + pattern), bound to a colliding module's handler; a text equal to either
\* form is dispatched to the handler of that form only; and no handler is lost
\* to a collision of suffixed keys: every colliding module's handler is bound.
C18_SuffixKeepsBoth ==
    (/\ merger # NoMerger
     /\ merger.config.ConflictStrategy = SuffixConflicting
     /\ ~merger.config.FailOnConflict) =>
        /\ \A cmd \in {cmdStart, cmdHelp, cmdSettings} :
            Cardinality(Definers("commands", cmd)) > 1 =>
                LET sfx == cmd \o merger.config.DefaultSuffix IN
                /\ cmd \in DOMAIN merger.commands
                /\ merger.commands[cmd] = FirstDefiner("commands", cmd)
                /\ sfx \in DOMAIN merger.commands
                /\ merger.commands[sfx] \in LaterDefiners("commands", cmd)
                /\ Resolve(merger, cmd) = {merger.commands[cmd]}
                /\ Resolve(merger, sfx) = {merger.commands[sfx]}
                /\ \A name \in LaterDefiners("commands", cmd) :
                        \E c \in DOMAIN merger.commands : merger.commands[c] = name
        /\ \A pattern \in {patBuy, patSell} :
            Cardinality(Definers("callbacks", pattern)) > 1 =>
                LET sfx == merger.config.DefaultSuffix \o pattern IN
                /\ pattern \in DOMAIN merger.callbacks
                /\ merger.callbacks[pattern] = FirstDefiner("callbacks", pattern)
                /\ sfx \in DOMAIN merger.callbacks
                /\ merger.callbacks[sfx] \in LaterDefiners("callbacks", pattern)
                /\ ResolveCallback(merger, pattern) = {merger.callbacks[pattern]}
                /\ ResolveCallback(merger, sfx) = {merger.callbacks[sfx]}
                /\ \A name \in LaterDefiners("callbacks", pattern) :
                        \E c \in DOMAIN merger.callbacks : merger.callbacks[c] = name

\* The keys a module contributes to the three collections
KeysOf(bot) ==
    [commands |-> DOMAIN bot.commands,
     callbacks |-> DOMAIN bot.callbacks,
     commandsList |-> {bot.commandsList[i].Command : i \in 1..Len(bot.commandsList)}]

\* The keys the registry m holds in the three collections
KeysIn(m) ==
    [commands |-> DOMAIN m.commands,
     callbacks |-> DOMAIN m.callbacks,
     commandsList |-> {m.commandsList[i].Command : i \in 1..Len(m.commandsList)}]

\* MergeBots(bots...) on the registry m meets a collision: a module brings a
\* key that the registry or an earlier module of the call already has
CollisionIn(m, bots) ==
    \E i \in 1..Len(bots), coll \in {"commands", "callbacks", "commandsList"} :
        KeysOf(BotNamed(bots[i]))[coll] \cap
            (KeysIn(m)[coll] \cup UNION {KeysOf(BotNamed(bots[j]))[coll] : j \in 1..(i - 1)}) # {}

\* C19: with fail-on-conflict set, whichever strategy is configured, a call of
\* MergeBots that meets a colliding key in the commands, the callback patterns
\* or the command-list returns an error and does not complete the merge of all
\* its modules.
C19_FailOnConflictAborts ==
    [][\A bots \in BotLists :
        (/\ merger # NoMerger
         /\ merger.config.FailOnConflict
         /\ CollisionIn(merger, bots)
         /\ MergeBots(bots)) =>
            /\ merger'.err # NoErr
            /\ Len(merger'.setSenders) < Len(merger.setSenders) + Len(bots)]_vars

\* The registry a merger exposes through the Bot interface
Registry(m) ==
    [commands |-> m.commands,
     callbacks |-> m.callbacks,
     commandsList |-> m.commandsList,
     middleware |-> m.middleware,
     defaultHandlers |-> m.defaultHandlers]

\* C20: under keep-original (without fail-on-conflict), a merger into which
\* the same single module was merged twice has the same registry (commands,
\* callback patterns, command-list, middleware chain, default-handler
\* sequence) as a merger of that configuration into which it was merged once.
C20_MergeTwiceIsMergeOnce ==
    (/\ merger # NoMerger
     /\ merger.config.ConflictStrategy = KeepOriginal
     /\ ~merger.config.FailOnConflict
     /\ Len(merger.merged) = 2
     /\ merger.merged[1] = merger.merged[2]) =>
        \A once \in mergeAll(NewBotMerger(merger.config), <<merger.merged[1]>>) :
            Registry(merger) = Registry(once)

\* The positions in the merge order of the modules whose command-list has an
\* entry named cmd
ListDefiners(cmd) ==
    {i \in 1..Len(merger.merged) : cmd \in KeysOf(BotNamed(merger.merged[i])).commandsList}

FirstListDefiner(cmd) ==
    merger.merged[CHOOSE i \in ListDefiners(cmd) : \A j \in ListDefiners(cmd) : i <= j]

LastListDefiner(cmd) ==
    merger.merged[CHOOSE i \in ListDefiners(cmd) : \A j \in ListDefiners(cmd) : i >= j]

\* C21: the merged command-list never holds two entries with the same name;
\* after merges without fail-on-conflict, under keep-original every entry has
\* the description of the first module, in merge order, that listed the
\* command, and under replace-with-new that of the last module that listed it.
C21_ListHonorsPolicy ==
    merger # NoMerger =>
        LET list == merger.commandsList IN
        /\ \A i, j \in 1..Len(list) : list[i].Command = list[j].Command => i = j
        /\ (merger.config.ConflictStrategy = KeepOriginal /\ ~merger.config.FailOnConflict) =>
                \A i \in 1..Len(list) : list[i].Description = FirstListDefiner(list[i].Command)
        /\ (merger.config.ConflictStrategy = ReplaceWithNew /\ ~merger.config.FailOnConflict) =>
                \A i \in 1..Len(list) : list[i].Description = LastListDefiner(list[i].Command)

\* C22: under suffix-conflicting (without fail-on-conflict), after any merges,
\* every command a merged module lists is in the merged command-list under
\* its own name, and a command that more than one merged module lists is also
\* there under its name plus the suffix, which is then a key of the command
\* map when the command collided there too.
C22_SuffixListHasBoth ==
    (/\ merger # NoMerger
     /\ merger.config.ConflictStrategy = SuffixConflicting
     /\ ~merger.config.FailOnConflict) =>
        \A i \in 1..Len(merger.merged) :
            \A cmd \in KeysOf(BotNamed(merger.merged[i])).commandsList :
                /\ cmd \in KeysIn(merger).commandsList
                /\ Cardinality(ListDefiners(cmd)) > 1 =>
                    /\ (cmd \o merger.config.DefaultSuffix) \in KeysIn(merger).commandsList
                    /\ Cardinality(Definers("commands", cmd)) > 1 =>
                            (cmd \o merger.config.DefaultSuffix) \in DOMAIN merger.commands

\* C23: once SetSender was called, after any sequence of MergeBots and
\* SetSender calls every module whose merge completed holds, as its sender,
\* the sender most recently passed to SetSender.
C23_SenderReachesEveryModule ==
    (merger # NoMerger /\ merger.sender # "nil") =>
        \A i \in 1..Len(merger.setSenders) :
            \A name \in merger.setSenders[i] : merger.botSender[name] = merger.sender

\* SetSender was called twice, modules were merged, and a module that was
\* never merged has no sender
C23_Witness ==
    /\ merger # NoMerger
    /\ merger.sender = "s2"
    /\ Len(merger.setSenders) = 3
    /\ merger.botSender["bot1"] = "s2"
    /\ merger.botSender["bot2"] = "s2"
    /\ merger.botSender["bot3"] = "nil"
    /\ merger.botSender["bot4"] = "s2"

\* The default handlers of the modules whose merge completed, in merge order,
\* a module without a default handler contributing none
HandlersInMergeOrder == SelectSeq(Flatten(merger.defaultHandlers), LAMBDA h : h # "nil")

\* C24: a call of the aggregated default handler for one update runs the
\* default handler of every merged module once, in merge order, and runs to
\* its end: no handler keeps the later ones from running.
C24_DefaultHandlersAllRun ==
    [][DefaultHandler =>
        /\ mout'.invoked = HandlersInMergeOrder
        /\ panicked' = "none"]_vars

\* C25: NewBotMerger with suffix-conflicting and an empty suffix, or without a
\* logger, returns an error and no merger; with every other configuration it
\* returns no error and a merger of that configuration with an empty registry.
C25_ConstructionValidatesConfig ==
    [][\A config \in AllConfigs : NewMerger(config) =>
        IF \/ (config.ConflictStrategy = SuffixConflicting /\ config.DefaultSuffix = <<>>)
           \/ config.Logger = "nil"
        THEN mout'.err # NoErr /\ merger' = NoMerger
        ELSE /\ mout'.err = NoErr
             /\ merger' # NoMerger
             /\ merger'.config = config
             /\ Registry(merger') =
                    [commands |-> EmptyMap, callbacks |-> EmptyMap, commandsList |-> <<>>,
                     middleware |-> <<>>, defaultHandlers |-> <<>>]]_vars

\* A construction with suffix-conflicting and no suffix was refused
C25_Witness ==
    /\ merger = NoMerger
    /\ mout.err = "default suffix must be set when using SuffixConflicting strategy"

\* The modules the setSender functions of the merger reach
Reached(m) == UNION {m.setSenders[i] : i \in 1..Len(m.setSenders)}

\* C26: under keep-original or replace-with-new, merging into the merger a
\* second merger built from the modules m1..mk ends as merging m1..mk
\* directly, in that order, can end: with an error when that ends with an
\* error, and otherwise with the same commands, callback patterns and
\* middleware sequence, with m1..mk holding the merger's sender if it has one,
\* and with every later SetSender reaching every one of m1..mk.
C26_NestedMergeIsFlatMerge ==
    [][/\ \A bots \in BotLists :
            (/\ merger # NoMerger
             /\ mout'.call = "MergeBots(merger)"
             /\ merger.config.ConflictStrategy \in {KeepOriginal, ReplaceWithNew}
             /\ MergeNested(bots)) =>
                \E direct \in mergeAll([merger EXCEPT !.err = NoErr], bots) :
                    IF merger'.err # NoErr THEN direct.err # NoErr
                    ELSE /\ direct.err = NoErr
                         /\ direct.commands = merger'.commands
                         /\ direct.callbacks = merger'.callbacks
                         /\ direct.middleware = merger'.middleware
                         /\ \A i \in 1..Len(bots) :
                                /\ bots[i] \in Reached(merger')
                                /\ merger.sender # "nil" =>
                                        merger'.botSender[bots[i]] = merger.sender
       /\ \A s \in Senders :
            (merger # NoMerger /\ mout'.call = "SetSender" /\ SetSender(s)) =>
                \A name \in Reached(merger) : merger'.botSender[name] = s]_vars

\* A merger built from two modules with a common command and callback pattern
\* was merged into a merger that already had a module and a sender
C26_Witness ==
    /\ merger # NoMerger
    /\ mout.call = "MergeBots(merger)"
    /\ mout.err = NoErr
    /\ merger.config.ConflictStrategy = ReplaceWithNew
    /\ merger.merged = <<"bot3", "bot1", "bot2">>
    /\ merger.sender = "s1"
    /\ merger.botSender["bot2"] = "s1"

\* C27: an ask call whose request is no longer in the table (after delivery,
\* supersede, sweep, Shutdown or the cleanup of another caller) eventually
\* returns.
C27_RemovedSlotReturns ==
    \A c \in Callers :
        (call[c].req # NoReq /\ ~InTable(call[c].req)) ~> (pc[c] = "idle")

\* The ask calls waiting in their select
Waiting == {c \in Callers : pc[c] = "parked"}

Older == {r \in TableReqs(loginRequests) : reqs[r].created + Timeout < now}

\* The chats all of whose requests are older than the timeout
Emptied == {chat \in DOMAIN loginRequests :
                \A kind \in DOMAIN loginRequests[chat] : loginRequests[chat][kind] \in Older}

\* C29: a sweep pass removes from the table exactly the requests older than
\* the timeout, each of them cancelled and closed; every other request stays
\* in its slot as it was; a chat's entry and its retry counter are removed
\* exactly when all its requests were removed, and the other counters stay.
C29_SweepRemovesExactlyStale ==
    [][Sweep =>
        /\ TableReqs(loginRequests') = TableReqs(loginRequests) \ Older
        /\ \A r \in Older : reqs'[r].closed /\ reqs'[r].done
        /\ \A chat \in DOMAIN loginRequests : \A kind \in DOMAIN loginRequests[chat] :
                LET r == loginRequests[chat][kind] IN
                r \notin Older =>
                    /\ chat \in DOMAIN loginRequests'
                    /\ kind \in DOMAIN loginRequests'[chat]
                    /\ loginRequests'[chat][kind] = r
                    /\ reqs'[r] = reqs[r]
        /\ DOMAIN loginRequests' = (DOMAIN loginRequests) \ Emptied
        /\ DOMAIN login2FAIdx' = (DOMAIN login2FAIdx) \ Emptied
        /\ \A chat \in DOMAIN login2FAIdx' : login2FAIdx'[chat] = login2FAIdx[chat]]_vars

\* A pass has just swept the chat's old two-factor request and kept its
\* younger code request and the retry counter
C29_Witness ==
    /\ \E r \in DOMAIN reqs : reqs[r].end = "swept" /\ reqs[r].kind = reqType2Fa
    /\ HasSlot(42, reqTypeCode) /\ ~HasSlot(42, reqType2Fa)
    /\ 42 \in DOMAIN login2FAIdx
    /\ ~tickerC /\ now = MaxTime

\* C30: a two-factor ask with attemptsLeft > 0 first sends the notice with
\* that number and opens nothing, then sends the two-factor prompt and opens
\* nothing, and only then opens the slot, sending nothing; with attemptsLeft
\* = 0 the first message is the prompt and the rest is the same.
C30_RetryNoticeThenPromptThenSlot ==
    [][\A c \in Callers :
        /\ (pc[c] = "idle" /\ pc'[c] # "idle" /\ call'[c].kind = reqType2Fa) =>
                /\ UNCHANGED <<loginRequests, login2FAIdx, reqs>>
                /\ sent'.chat = call'[c].chat /\ sent'.ok
                /\ IF call'[c].attemptLeft > 0
                   THEN sent'.msg = msg2FaIncorrect(call'[c].attemptLeft) /\ pc'[c] = "prompt"
                   ELSE sent'.msg = "twofaCodeMsg" /\ pc'[c] = "create"
        /\ (pc[c] = "prompt" /\ pc'[c] # "prompt") =>
                /\ call[c].kind = reqType2Fa /\ call[c].attemptLeft > 0
                /\ UNCHANGED <<loginRequests, login2FAIdx, reqs>>
                /\ sent' = [chat |-> call[c].chat, msg |-> "twofaCodeMsg", ok |-> sent'.ok]
                /\ pc'[c] = IF sent'.ok THEN "create" ELSE "idle"
        /\ (call[c].kind = reqType2Fa /\ pc[c] = "create" /\ pc'[c] # "create") =>
                /\ sent' = NoSend
                /\ HasSlot(call[c].chat, reqType2Fa)'
                /\ loginRequests'[call[c].chat][reqType2Fa] = call'[c].req
                /\ call'[c].req = Len(reqs) + 1
        /\ (call[c].req = NoReq /\ call'[c].req # NoReq) => pc[c] = "create"]_vars

\* A retry has sent its notice and its prompt and has just opened the slot
C30_Witness ==
    \E c \in Callers :
        /\ call[c].kind = reqType2Fa /\ call[c].attemptLeft > 0
        /\ pc[c] = "idx"
        /\ HasSlot(call[c].chat, reqType2Fa)
        /\ loginRequests[call[c].chat][reqType2Fa] = call[c].req

\* The retry counter of a chat; a chat without an entry reads as 0
CounterOf(idx, chat) == IF chat \in DOMAIN idx THEN idx[chat] ELSE 0

\* C31: the step that completes the opening of a two-factor slot adds one to
\* the chat's retry counter when the ask came with a nonzero attempts hint and
\* leaves the counters as they are when the hint is zero; the steps of phone
\* and code asks leave the counters as they are (the cleanup after their own
\* timeout aside).
C31_RetryCounterIncrements ==
    [][\A c \in Callers :
        /\ (pc[c] = "idx" /\ Ask2FAIdx(c)) =>
                IF call[c].attemptLeft > 0
                THEN /\ CounterOf(login2FAIdx', call[c].chat)
                            = CounterOf(login2FAIdx, call[c].chat) + 1
                     /\ \A chat \in Chats \ {call[c].chat} :
                            CounterOf(login2FAIdx', chat) = CounterOf(login2FAIdx, chat)
                ELSE login2FAIdx' = login2FAIdx
        /\ (call'[c].kind \in {reqTypePhone, reqTypeCode} /\ pc[c] # pc'[c]
                /\ pc[c] \in {"idle", "create", "select"}) =>
                login2FAIdx' = login2FAIdx]_vars

\* The middleware lists of the named modules, one after the other
RECURSIVE MiddlewareOf(_)
MiddlewareOf(names) ==
    IF names = <<>> THEN <<>>
    ELSE BotNamed(Head(names)).middleware \o MiddlewareOf(Tail(names))

\* C32: the merged middleware sequence is the concatenation of the merged
\* modules' middleware lists in merge order (without fail-on-conflict every
\* module handed to a merge is merged); a call of MergeBots appends the lists
\* of the modules it merged, in their order, to the sequence as it was (a
\* merger merged as a module brings the sequence of its modules), and no
\* step reorders or drops what is registered.
C32_MiddlewareIsConcatenation ==
    [][/\ (merger' # NoMerger /\ ~merger'.config.FailOnConflict) =>
                merger'.middleware = MiddlewareOf(merger'.merged)
       /\ merger # NoMerger =>
            /\ merger' # NoMerger
            /\ Len(merger'.middleware) >= Len(merger.middleware)
            /\ SubSeq(merger'.middleware, 1, Len(merger.middleware)) = merger.middleware
            /\ LET n == Len(merger'.setSenders) - Len(merger.setSenders) IN
               /\ \A bots \in BotLists :
                    (/\ mout'.call = "MergeBots"
                     /\ merger'.merged = merger.merged \o bots
                     /\ MergeBots(bots)) =>
                        /\ n <= Len(bots)
                        /\ merger'.err = NoErr => n = Len(bots)
                        /\ merger'.middleware =
                                merger.middleware \o MiddlewareOf(SubSeq(bots, 1, n))
               /\ \A bots \in BotLists :
                    (/\ mout'.call = "MergeBots(merger)"
                     /\ merger'.merged = merger.merged \o bots
                     /\ MergeNested(bots)) =>
                        merger'.middleware =
                            merger.middleware \o (IF n = 1 THEN MiddlewareOf(bots) ELSE <<>>)
               /\ mout'.call \in {"SetSender", "DefaultHandler"} =>
                        merger'.middleware = merger.middleware]_vars

\* Three modules were merged in two calls and the chain holds their
\* middleware in that order
C32_Witness ==
    /\ merger # NoMerger
    /\ mout.call = "MergeBots"
    /\ merger.merged = <<"bot3", "bot2", "bot1">>
    /\ Len(merger.setSenders) = 3
    /\ merger.middleware = <<"mw3", "mw2a", "mw2b", "mw1">>

\* C33: a reader of the dispatch path that got the command or callback map
\* from Commands() or CallBacks() never reads it while a MergeBots writes to
\* it: no merge writes to a map that is being ranged over.
C33_ReadsNeverOverlapMerge ==
    /\ ~reader.raced
    /\ panicked # "concurrent map iteration and map write"

\* C34: no response channel is closed twice (the runtime panic "close of
\* closed channel" never happens), because a request whose channel is closed
\* has left the table in the same step: no request of the table is closed.
C34_NoDoubleClose ==
    /\ panicked # "close of closed channel"
    /\ \A r \in TableReqs(loginRequests) : ~reqs[r].closed

\* One request was closed by a supersede and a later one by the sweep, and
\* Shutdown has run after them
C34_Witness ==
    /\ Running
    /\ done
    /\ \E r1, r2 \in DOMAIN reqs :
            /\ reqs[r1].end = "superseded" /\ reqs[r1].closed
            /\ reqs[r2].end = "swept" /\ reqs[r2].closed

\* C35: whenever the table lock is free, every chat with a retry counter has
\* at least one request in the table.
C35_CounterOnlyWithSlot ==
    LockFree => \A chat \in DOMAIN login2FAIdx : hasAnyRequests(chat)

\* C36: whenever the table lock is free, every chat of the table has at least
\* one request: no chat is left with an empty map.
C36_NoEmptyChatEntry ==
    LockFree => \A chat \in DOMAIN loginRequests : DOMAIN loginRequests[chat] # {}

\* The two-factor request of a chat was removed after its delivery and the
\* chat keeps its entry for the code request that is still open
C36_Witness ==
    /\ 42 \in DOMAIN loginRequests
    /\ DOMAIN loginRequests[42] = {reqTypeCode}
    /\ \E r \in DOMAIN reqs :
            /\ reqs[r].chat = 42 /\ reqs[r].kind = reqType2Fa
            /\ reqs[r].removedFor = r

\* The handlers bound in a map of the registry
Bound(map) == {map[key] : key \in DOMAIN map}

\* C37: under keep-original and under suffix-conflicting, no step changes the
\* handler of a command or callback pattern that is in the registry, and
\* every handler that is bound stays bound under some key, however many
\* modules define the same key.
C37_BoundHandlersStay ==
    [][(/\ merger # NoMerger
        /\ merger' # NoMerger
        /\ merger.config.ConflictStrategy \in {KeepOriginal, SuffixConflicting}) =>
            /\ \A cmd \in DOMAIN merger.commands :
                    /\ cmd \in DOMAIN merger'.commands
                    /\ merger'.commands[cmd] = merger.commands[cmd]
            /\ \A pattern \in DOMAIN merger.callbacks :
                    /\ pattern \in DOMAIN merger'.callbacks
                    /\ merger'.callbacks[pattern] = merger.callbacks[pattern]
            /\ Bound(merger.commands) \subseteq Bound(merger'.commands)
            /\ Bound(merger.callbacks) \subseteq Bound(merger'.callbacks)]_vars

\* C38: a call of the aggregated default handler never fails, whichever
\* modules were merged, a module without a default handler among them: the
\* program never panics on the call of a nil handler.
C38_DefaultHandlerNeverFails ==
    panicked # "invalid memory address or nil pointer dereference"

\* This step leaves every slot but that of (chat, kind) as it is: the slot
\* holds the same request, the request is unchanged and the callers of that
\* request stay where they are
Isolated(chat, kind) ==
    \A chat2 \in DOMAIN loginRequests : \A kind2 \in DOMAIN loginRequests[chat2] :
        <<chat2, kind2>> # <<chat, kind>> =>
            LET r == loginRequests[chat2][kind2] IN
            /\ chat2 \in DOMAIN loginRequests'
            /\ kind2 \in DOMAIN loginRequests'[chat2]
            /\ loginRequests'[chat2][kind2] = r
            /\ reqs'[r] = reqs[r]
            /\ \A c2 \in Callers :
                    call[c2].req = r => (pc'[c2] = pc[c2] /\ call'[c2] = call[c2])

\* C39: the step of an ask that opens a slot (superseding the one that was
\* open), the steps of a handler that answers a slot, and the cleanup of an
\* ask that timed out, each for its own (chat, kind), leave the slots of every
\* other chat and of every other kind of the same chat in the table with
\* their requests unchanged, and the callers waiting on them stay blocked.
C39_SlotsAreIsolated ==
    [][/\ \A c \in Callers :
            (pc[c] \in {"create", "timedout"} /\ pc'[c] # pc[c]) =>
                Isolated(call[c].chat, call[c].kind)
       /\ \A d \in Delivs :
            (dpc[d] \in {"send", "remove"} /\ dpc'[d] # dpc[d]) =>
                Isolated(dcall[d].chat, dcall[d].kind)]_vars

\* The slot of chat 42 was answered while a caller is blocked on the open
\* slot of chat 43
C39_Witness ==
    /\ \E d \in Delivs : dpc[d] = "remove" /\ dcall[d].chat = 42
    /\ \E c \in Callers :
            /\ pc[c] = "parked"
            /\ call[c].chat = 43
            /\ InTable(call[c].req)

====
